---------------------------- MODULE Spec2Model ----------------------------
(***************************************************************************)
(* A model of the external-platform ingestion code of TrendRadar:          *)
(*   src/platforms/__init__.py   the platform registry                     *)
(*   src/platforms/base.py       BasePlatformFetcher                       *)
(*   src/platforms/reddit.py     RedditFetcher                             *)
(*   src/mcp_server/utils/validators.py   validate_platforms               *)
(* Durations are kept in milliseconds so that request_interval / 1000 and  *)
(* the sub-second jitter need no fractions.  Strings the code inspects     *)
(* character by character (titles, permalinks, the Retry-After header) are *)
(* sequences of one-character strings.                                     *)
(***************************************************************************)
EXTENDS Integers, Sequences, FiniteSets, TLC

(***************************************************************************)
(* Bounds of the model                                                     *)
(***************************************************************************)
\* longest configured subreddit list
MaxSubs == 2

\* names a configured subreddit can have
SubNames == {"a", "b"}

\* every subreddit list of at most MaxSubs names
SubLists == UNION {[1..n -> SubNames] : n \in 0..MaxSubs}

\* values of request_interval the constructor accepts (milliseconds)
Intervals == {-1000, 0, 2000}

(***************************************************************************)
(* Program constants                                                       *)
(***************************************************************************)
\* reddit.py:65  max_retries: int = 3
max_retries == 3

\* reddit.py:85  max_rate_limit_retries = 2
max_rate_limit_retries == 2

\* reddit.py:103  response.headers.get("Retry-After", 60)
DefaultRetryAfter == 60

\* reddit.py:103  min(..., 120)
MaxRetryAfter == 120

\* reddit.py:48  platform_id
platform_id == "reddit"

\* reddit.py:52  platform_name (config.get("name", "Reddit"))
platform_name == "Reddit"

(***************************************************************************)
(* Strings                                                                 *)
(***************************************************************************)
Min(a, b) == IF a <= b THEN a ELSE b

\* str.strip(): leading and trailing blanks removed
RECURSIVE LStrip(_)
LStrip(s) == IF s # <<>> /\ Head(s) = " " THEN LStrip(Tail(s)) ELSE s

RECURSIVE RStrip(_)
RStrip(s) ==
    IF s # <<>> /\ s[Len(s)] = " " THEN RStrip(SubSeq(s, 1, Len(s) - 1)) ELSE s

Strip(s) == RStrip(LStrip(s))

\* a fault: every non-empty permalink passes for a path
StartsWithSlashAlways(s) == TRUE

\* str.startswith("/")
StartsWithSlash(s) == s # <<>> /\ Head(s) = "/"

Digits == {"0", "1", "2", "3", "4", "5", "6", "7", "8", "9"}

DigitVal(c) ==
    CASE c = "0" -> 0 [] c = "1" -> 1 [] c = "2" -> 2 [] c = "3" -> 3
      [] c = "4" -> 4 [] c = "5" -> 5 [] c = "6" -> 6 [] c = "7" -> 7
      [] c = "8" -> 8 [] c = "9" -> 9

RECURSIVE DecVal(_)
DecVal(s) == IF s = <<>> THEN 0
             ELSE 10 * DecVal(SubSeq(s, 1, Len(s) - 1)) + DigitVal(s[Len(s)])

AllDigits(s) == s # <<>> /\ \A k \in 1..Len(s) : s[k] \in Digits

\* int(text) accepts an optionally signed run of decimal digits
IsIntText(s) ==
    \/ AllDigits(s)
    \/ s # <<>> /\ Head(s) \in {"-", "+"} /\ AllDigits(Tail(s))

\* int(text) for a text IsIntText accepts
IntOfText(s) ==
    IF Head(s) = "-" THEN 0 - DecVal(Tail(s))
    ELSE IF Head(s) = "+" THEN DecVal(Tail(s))
    ELSE DecVal(s)

(***************************************************************************)
(* Records of the wire protocol                                            *)
(***************************************************************************)
\* one data.children[].data object of a listing
Child(id, title, ups, permalink, stickied) ==
    [id |-> id, title |-> title, ups |-> ups, permalink |-> permalink,
     stickied |-> stickied]

\* listings an endpoint can answer with
BodyEmpty == <<>>

BodyHot ==
    << Child("x", <<"A">>, 5, <<"/", "x">>, FALSE),
       Child("y", <<" ", "B">>, 5, <<>>, FALSE) >>

BodyTop ==
    << Child("x", <<"A">>, 9, <<"/", "x">>, FALSE),
       Child("s", <<"S">>, 99, <<"/", "s">>, TRUE),
       Child("w", <<" ">>, 7, <<"/", "w">>, FALSE),
       Child("z", <<"C">>, 1, <<"z">>, FALSE) >>

Bodies == {BodyEmpty, BodyHot, BodyTop}

\* a fault: the title is kept as sent
PostUnstripped(c, subreddit) ==
    [id |-> c.id, title |-> c.title, upvotes |-> c.ups,
     permalink |-> c.permalink, subreddit |-> subreddit]

\* the post dict built at reddit.py:127-136
Post(c, subreddit) ==
    [id |-> c.id, title |-> Strip(c.title), upvotes |-> c.ups,
     permalink |-> c.permalink, subreddit |-> subreddit]

\* reddit.py:116-138: skip stickied posts and posts with a blank title
RECURSIVE ExtractPosts(_, _)
ExtractPosts(children, subreddit) ==
    IF children = <<>> THEN <<>>
    ELSE LET c == Head(children)
             rest == ExtractPosts(Tail(children), subreddit)
         IN  IF c.stickied THEN rest
             ELSE IF Strip(c.title) = <<>> THEN rest
             ELSE <<Post(c, subreddit)>> \o rest

(***************************************************************************)
(* _merge_and_deduplicate                                                  *)
(***************************************************************************)
\* position of post_id among the values of seen, 0 when absent
IndexOfId(seen, post_id) ==
    IF \E k \in 1..Len(seen) : seen[k].id = post_id
    THEN CHOOSE k \in 1..Len(seen) : seen[k].id = post_id
    ELSE 0

\* a fault: the copy met last replaces the kept one
ReplacesAlways(post, kept) == TRUE

\* reddit.py:173: a copy replaces the kept one only with strictly more upvotes
Replaces(post, kept) == post.upvotes > kept.upvotes

\* reddit.py:172-174: one iteration of the loop; a dict keeps the position
\* of a key whose value is replaced
SeenPut(seen, post) ==
    LET k == IndexOfId(seen, post.id)
    IN  IF k = 0 THEN Append(seen, post)
        ELSE IF Replaces(post, seen[k]) THEN [seen EXCEPT ![k] = post]
        ELSE seen

RECURSIVE SeenFold(_, _)
SeenFold(seen, posts) ==
    IF posts = <<>> THEN seen
    ELSE SeenFold(SeenPut(seen, Head(posts)), Tail(posts))

\* reddit.py:154-176
_merge_and_deduplicate(hot, top) == SeenFold(<<>>, hot \o top)

(***************************************************************************)
(* _transform_to_trendradar_format                                         *)
(***************************************************************************)
\* a fault: p is put before the posts with as many upvotes
RECURSIVE InsertDescUnstable(_, _)
InsertDescUnstable(sorted, p) ==
    IF sorted = <<>> THEN <<p>>
    ELSE IF Head(sorted).upvotes > p.upvotes
         THEN <<Head(sorted)>> \o InsertDescUnstable(Tail(sorted), p)
         ELSE <<p>> \o sorted

\* where a stable descending sort puts p among the already sorted posts:
\* after every post with at least as many upvotes
RECURSIVE InsertDesc(_, _)
InsertDesc(sorted, p) ==
    IF sorted = <<>> THEN <<p>>
    ELSE IF Head(sorted).upvotes >= p.upvotes
         THEN <<Head(sorted)>> \o InsertDesc(Tail(sorted), p)
         ELSE <<p>> \o sorted

RECURSIVE SortFold(_, _)
SortFold(sorted, posts) ==
    IF posts = <<>> THEN sorted
    ELSE SortFold(InsertDesc(sorted, Head(posts)), Tail(posts))

\* reddit.py:192  sorted(posts, key=upvotes, reverse=True), a stable sort
sorted_posts(posts) == SortFold(<<>>, posts)

\* reddit.py:199-205
PostUrl(post) ==
    LET permalink == Strip(post.permalink)
    IN  IF permalink # <<>> /\ StartsWithSlash(permalink)
        THEN <<"https://reddit.com">> \o permalink
        ELSE <<"https://reddit.com/r/", post.subreddit>>

\* the empty dict
EmptyMap == [k \in {} |-> k]

\* a fault: a title met again takes the url of the later post
ResultPutLastUrl(result, rank, post) ==
    IF post.title \in DOMAIN result
    THEN [result EXCEPT ![post.title] =
             [ranks |-> Append(@.ranks, rank), url |-> PostUrl(post),
              mobileUrl |-> PostUrl(post)]]
    ELSE [t \in DOMAIN result \cup {post.title} |->
            IF t = post.title
            THEN [ranks |-> <<rank>>, url |-> PostUrl(post),
                  mobileUrl |-> PostUrl(post)]
            ELSE result[t]]

\* reddit.py:207-215: one iteration of the loop over enumerate(sorted, 1)
ResultPut(result, rank, post) ==
    IF post.title \in DOMAIN result
    THEN [result EXCEPT ![post.title].ranks = Append(@, rank)]
    ELSE [t \in DOMAIN result \cup {post.title} |->
            IF t = post.title
            THEN [ranks |-> <<rank>>, url |-> PostUrl(post),
                  mobileUrl |-> PostUrl(post)]
            ELSE result[t]]

RECURSIVE ResultFold(_, _, _)
ResultFold(result, sorted, rank) ==
    IF rank > Len(sorted) THEN result
    ELSE ResultFold(ResultPut(result, rank, sorted[rank]), sorted, rank + 1)

\* reddit.py:178-217
_transform_to_trendradar_format(posts) == ResultFold(EmptyMap, sorted_posts(posts), 1)

\* the "enabled" key of a platform's configuration section
EnabledFlags == {"absent", "false", "true"}

(***************************************************************************)
(* The platform registry (src/platforms/__init__.py)                       *)
(***************************************************************************)
\* identifiers a platform module can register under
PlatformIds == {"reddit", "hn"}

\* fetcher classes: RedditFetcher, and a subclass of BasePlatformFetcher
\* that keeps the constructor of the base class
Classes == {"RedditFetcher", "BaseFetcher"}

\* proxy_url arguments; "" stands for None
Proxies == {"", "http://proxy"}

\* values of the "posts_limit" key: <<>> when the key is missing, else <<text>>
PostsLimits == { <<>>, << <<"5", "0", "0">> >>, << <<"a">> >> }

\* what config[platform_id] can hold: nothing (the key is missing), null, or
\* a mapping; a key missing from the mapping is "absent", and a missing
\* "subreddits" key reads as the empty list (reddit.py:31)
Missing == [kind |-> "missing"]

Null == [kind |-> "null"]

Mappings ==
    [kind : {"mapping"}, enabled : EnabledFlags,
     subreddits : {<<>>, <<"a">>}, posts_limit : PostsLimits]

Sections == {Missing, Null} \cup Mappings

\* the {} that config.get(platform_id, {}) falls back to
EmptyMapping ==
    [kind |-> "mapping", enabled |-> "absent", subreddits |-> <<>>,
     posts_limit |-> <<>>]

\* __init__.py:38 and :58  config.get(platform_id, {})
ConfigGet(cfg, id) == IF cfg[id] = Missing THEN EmptyMapping ELSE cfg[id]

\* __init__.py:59  platform_config.get("enabled", False) on a section that is
\* no mapping raises AttributeError
EnabledLookupRaises(section) == section.kind # "mapping"

\* __init__.py:59  the truth of platform_config.get("enabled", False)
SectionEnabled(section) == section.enabled = "true"

\* reddit.py:29-44 raises when config is no mapping (config.get) or when
\* posts_limit is no integer (int()); base.py:20-29 never raises
ConstructorRaises(cls, section) ==
    /\ cls = "RedditFetcher"
    /\ \/ section.kind # "mapping"
       \/ section.posts_limit # <<>> /\ ~IsIntText(section.posts_limit[1])

\* reddit.py:33  min(max(1, int(config.get("posts_limit", 100))), 100)
PostsLimit(section) ==
    LET n == IF section.posts_limit = <<>> THEN 100
             ELSE IntOfText(section.posts_limit[1])
    IN  Min(IF n < 1 THEN 1 ELSE n, 100)

\* the instance cls(platform_config, proxy_url) builds: base.py:28-29 and
\* reddit.py:31-37.  The fields of a BaseFetcher that the base constructor
\* does not set are left at the empty values.
Construct(cls, section, proxy) ==
    IF cls = "RedditFetcher"
    THEN [cls |-> cls, config |-> section, proxy_url |-> proxy,
          enabled |-> section.enabled, subreddits |-> section.subreddits,
          posts_limit |-> PostsLimit(section), request_interval |-> 2000]
    ELSE [cls |-> cls, config |-> section, proxy_url |-> proxy,
          enabled |-> "absent", subreddits |-> <<>>, posts_limit |-> 0,
          request_interval |-> 0]

\* the registry is a dict: its items in insertion order
RegistryIds(registry) == {registry[k].id : k \in 1..Len(registry)}

RegistryIndex(registry, id) == CHOOSE k \in 1..Len(registry) : registry[k].id = id

\* a fault: the first registration of an identifier is kept
RegistryPutFirstWins(registry, id, cls) ==
    IF id \in RegistryIds(registry) THEN registry
    ELSE Append(registry, [id |-> id, cls |-> cls])

\* __init__.py:27  PLATFORM_REGISTRY[platform_id] = cls
RegistryPut(registry, id, cls) ==
    IF id \in RegistryIds(registry)
    THEN [registry EXCEPT ![RegistryIndex(registry, id)].cls = cls]
    ELSE Append(registry, [id |-> id, cls |-> cls])

\* __init__.py:60-64: a constructor that raises is skipped
TryConstruct(cls, section, proxy) ==
    IF ConstructorRaises(cls, section) THEN <<>>
    ELSE <<Construct(cls, section, proxy)>>

\* __init__.py:56-65: the loop over the items left, fetchers being the list
\* built so far
RECURSIVE EnabledFetchersFrom(_, _, _, _)
EnabledFetchersFrom(items, cfg, proxy, fetchers) ==
    IF items = <<>> THEN [status |-> "returned", value |-> fetchers]
    ELSE LET section == ConfigGet(cfg, Head(items).id)
         IN  IF EnabledLookupRaises(section)
             THEN [status |-> "raised", value |-> <<>>]
             ELSE EnabledFetchersFrom(Tail(items), cfg, proxy,
                      IF SectionEnabled(section)
                      THEN fetchers \o TryConstruct(Head(items).cls, section, proxy)
                      ELSE fetchers)

\* __init__.py:43-65
GetAllEnabledFetchersResult(registry, cfg, proxy) ==
    EnabledFetchersFrom(registry, cfg, proxy, <<>>)

\* a fault: a platform that is not marked enabled is reported absent
GetPlatformFetcherIfEnabled(registry, id, cfg, proxy) ==
    IF id \in RegistryIds(registry)
    THEN LET cls == registry[RegistryIndex(registry, id)].cls
             section == ConfigGet(cfg, id)
         IN  IF ConstructorRaises(cls, section)
             THEN [status |-> "raised", value |-> <<>>]
             ELSE IF section.enabled = "true"
             THEN [status |-> "returned",
                   value |-> <<Construct(cls, section, proxy)>>]
             ELSE [status |-> "returned", value |-> <<>>]
    ELSE [status |-> "returned", value |-> <<>>]

\* __init__.py:33-40; None is the empty value list
GetPlatformFetcherResult(registry, id, cfg, proxy) ==
    IF id \in RegistryIds(registry)
    THEN LET cls == registry[RegistryIndex(registry, id)].cls
             section == ConfigGet(cfg, id)
         IN  IF ConstructorRaises(cls, section)
             THEN [status |-> "raised", value |-> <<>>]
             ELSE [status |-> "returned",
                   value |-> <<Construct(cls, section, proxy)>>]
    ELSE [status |-> "returned", value |-> <<>>]

\* the config argument: the external_platforms mapping of config.yaml
RegistryConfigs == [PlatformIds -> Sections]

VARIABLES
    PLATFORM_REGISTRY,   \* __init__.py:13
    extConfig,           \* the config argument the registry's callers pass
    proxyUrl,            \* the proxy_url argument they pass
    call                 \* history: the last call of a registry function

regVars == <<PLATFORM_REGISTRY, extConfig, proxyUrl, call>>

Call(op, id, cls, result) ==
    [op |-> op, id |-> id, cls |-> cls, result |-> result]

NoCall == Call("none", "", "", [status |-> "returned", value |-> <<>>])

\* __init__.py:70 imports reddit.py, whose decorator at reddit.py:18
\* registers RedditFetcher; the configuration is loaded once
RegistryInit(cfgs, proxies) ==
    /\ PLATFORM_REGISTRY = <<[id |-> "reddit", cls |-> "RedditFetcher"]>>
    /\ extConfig \in cfgs
    /\ proxyUrl \in proxies
    /\ call = NoCall

(***************************************************************************)
(* RedditFetcher: configuration and state of one fetch_all call            *)
(***************************************************************************)

\* the configurations RedditFetcher.__init__ accepts (reddit.py:29-37)
Configs ==
    [enabled : EnabledFlags, subreddits : SubLists, request_interval : Intervals]

\* Retry-After headers of a 429 response: <<>> when the header is missing,
\* else <<text>>
RetryAfterHeaders ==
    { <<>>, << <<"-", "5">> >>, << <<"0">> >>, << <<"3", "0">> >>,
      << <<"3", "0", "0">> >>, << <<"a">> >> }

\* random.uniform(0, 1), in milliseconds
Jitters == {0, 999}

VARIABLES
    config,              \* self.config, self.subreddits, self.request_interval
    pc,                  \* where the fetch_all call stands
    i,                   \* fetch_all's loop index, counted from 1
    attempt,             \* _fetch_subreddit_posts: the for-loop variable
    rate_limit_retries,  \* _fetch_subreddit_posts: reddit.py:84
    hot_posts,           \* _fetch_subreddit: reddit.py:231
    all_posts,           \* fetch_all: reddit.py:255
    failed_subreddits,   \* fetch_all: reddit.py:256
    ret,                 \* what fetch_all returned
    epLog,               \* history: the requests of the current endpoint fetch
    lastSleep,           \* history: the last call of time.sleep
    epEnd,               \* history: how that endpoint fetch ended
    epRet,               \* history: what that endpoint fetch returned
    lastBody,            \* history: the listing that endpoint fetch parsed
    afterRateCap,        \* history: the endpoint fetch before it ended at the
                         \* rate-limit cap
    hotGaveUp,           \* history: the hot fetch of this subreddit gave up
    gaveUpSubs,          \* history: positions of the subreddits both of whose
                         \* endpoint fetches gave up
    started,             \* history: subreddits whose _fetch_subreddit was called
    trace,               \* history: the endpoint fetches begun and the
                         \* request_interval sleeps called, in order
    sinceRequest,        \* history: "none" before the first GET, "get" when
                         \* no time.sleep has returned since the last GET,
                         \* "slept" when one has
    fnArgs,              \* the arguments of a call of one of the pure methods
    fnRet                \* what that call returned

vars == <<config, pc, i, attempt, rate_limit_retries, hot_posts, all_posts,
          failed_subreddits, ret, epLog, lastSleep, epEnd, epRet, lastBody,
          afterRateCap, hotGaveUp, gaveUpSubs, started, trace, sinceRequest,
          fnArgs, fnRet,
          PLATFORM_REGISTRY, extConfig, proxyUrl, call>>

fetchVars == <<config, pc, i, attempt, rate_limit_retries, hot_posts, all_posts,
               failed_subreddits, ret, epLog, lastSleep, epEnd, epRet,
               lastBody, afterRateCap, hotGaveUp, gaveUpSubs, started, trace,
               sinceRequest>>

pureVars == <<fnArgs, fnRet>>

\* a fault: the subreddit list is not looked at
IsEnabledFlagOnly(cfg) == cfg.enabled = "true"

\* reddit.py:54-55
is_enabled(cfg) ==
    (IF cfg.enabled = "absent" THEN FALSE ELSE cfg.enabled = "true")
    /\ Len(cfg.subreddits) > 0

\* time.sleep raises ValueError for a negative duration
SleepRaises(ms) == ms < 0

\* the (results, id_to_name, failed_ids) triple of a return statement
Returned(results, id_to_name, failed_ids) ==
    [status |-> "returned", results |-> results, id_to_name |-> id_to_name,
     failed_ids |-> failed_ids]

NotReturned ==
    [status |-> "none", results |-> EmptyMap, id_to_name |-> EmptyMap,
     failed_ids |-> <<>>]

\* a fault: a fetcher that is not enabled reports its platform as failed
DisabledResultFailed == Returned(EmptyMap, EmptyMap, <<platform_id>>)

\* reddit.py:253: return {}, {}, []
DisabledResult == Returned(EmptyMap, EmptyMap, <<>>)

\* a fault: the rate-limit count of the endpoint fetch before is kept
CarriedRateLimitRetries == rate_limit_retries

\* reddit.py:84: every endpoint fetch starts its own rate-limit count
FreshRateLimitRetries == 0

\* reddit.py:87: range(max_retries) starts at 0
FirstAttempt == 0

\* reddit.py:100
RateLimitExceeded(n) == n > max_rate_limit_retries

\* reddit.py:103: min(int(header or 60), 120), in seconds
RetryAfter(header) ==
    Min(IF header = <<>> THEN DefaultRetryAfter ELSE IntOfText(header[1]),
        MaxRetryAfter)

\* reddit.py:103: int() raises ValueError on a header that is no integer
RetryAfterRaises(header) == header # <<>> /\ ~IsIntText(header[1])

\* reddit.py:109: "continue" moves the for loop to its next attempt
AttemptAfter429(a) == a + 1

\* reddit.py:141
MayRetry(a) == a < max_retries - 1

\* a fault: 2 * attempt for 2 ** attempt
BackoffMsLinear(a, jitter) == 2 * a * 1000 + jitter

\* reddit.py:142: 2**attempt + random.uniform(0, 1), in milliseconds
BackoffMs(a, jitter) == (2 ^ a) * 1000 + jitter

\* the subreddit fetch_all's loop is at
CurrentSub == config.subreddits[i]

InEndpoint == pc \in {"hot", "top"}

\* a request of the endpoint fetch: the answer, the attempt it was made in
\* and whether time.sleep was called before the next statement
Entry(resp, a, slept) == [resp |-> resp, attempt |-> a, slept |-> slept]

\* a call time.sleep(ms / 1000); hint is the Retry-After header the duration
\* was computed from, <<>> when there was none
Sleep(kind, ms, hint) == [kind |-> kind, ms |-> ms, hint |-> hint]

NoSleep == Sleep("none", 0, <<>>)

\* a fault: the pause between requests is dropped
IntervalMsZero(cfg) == 0

\* reddit.py:234 and :268: time.sleep(self.request_interval / 1000), the
\* duration in milliseconds
IntervalMs(cfg) == cfg.request_interval

\* an entry of trace: the hot or top endpoint fetch of a subreddit begins
\* (reddit.py:231, :236), or time.sleep is called at reddit.py:234 ("gap")
\* or at reddit.py:268 ("between") with a duration
Event(ev, sub, ms) == [ev |-> ev, sub |-> sub, ms |-> ms]

\* the ways an endpoint fetch returns [] without a listing: reddit.py:150,
\* 102 and 152
GaveUp == {"exhausted", "ratecap", "loopend"}

\* a fetcher that fetch_all is about to be called on
FetcherInit(cfgs) ==
    /\ config \in cfgs
    /\ pc = "call"
    /\ i = 1
    /\ attempt = 0
    /\ rate_limit_retries = 0
    /\ hot_posts = <<>>
    /\ all_posts = <<>>
    /\ failed_subreddits = <<>>
    /\ ret = NotReturned
    /\ epLog = <<>>
    /\ lastSleep = NoSleep
    /\ epEnd = "none"
    /\ epRet = <<>>
    /\ lastBody = <<>>
    /\ afterRateCap = FALSE
    /\ hotGaveUp = FALSE
    /\ gaveUpSubs = {}
    /\ started = <<>>
    /\ trace = <<>>
    /\ sinceRequest = "none"

\* the registry the fetcher specification leaves untouched
IdleRegistryConfig == [p \in PlatformIds |-> Missing]

\* no call of a pure method is under way
NoArgs == [fn |-> "none"]

\* the arguments of a call of a pure method, before the call
PureInit(argsets) ==
    /\ fnArgs \in argsets
    /\ fnRet = <<>>

Init ==
    /\ FetcherInit(Configs)
    /\ RegistryInit({IdleRegistryConfig}, {""})
    /\ PureInit({NoArgs})

\* reddit.py:84-87: entering _fetch_subreddit_posts
BeginEndpoint ==
    /\ attempt' = FirstAttempt
    /\ rate_limit_retries' = FreshRateLimitRetries
    /\ epLog' = <<>>
    /\ epEnd' = "running"
    /\ epRet' = <<>>
    /\ lastBody' = <<>>
    /\ afterRateCap' = (epEnd = "ratecap")

\* the locals of the _fetch_subreddit call that has ended are gone
DropLocals ==
    /\ attempt' = FirstAttempt
    /\ rate_limit_retries' = FreshRateLimitRetries
    /\ epLog' = <<>>
    /\ epEnd' = "none"
    /\ epRet' = <<>>
    /\ lastBody' = <<>>
    /\ afterRateCap' = FALSE

\* _fetch_subreddit_posts returns posts: to reddit.py:231 for the hot
\* endpoint, to reddit.py:236 for the top one, which is followed by the
\* merge (238) and all_posts.extend (261)
EndpointReturns(posts, how, a, r) ==
    /\ attempt' = a
    /\ rate_limit_retries' = r
    /\ IF pc = "hot"
       THEN /\ hot_posts' = posts
            /\ pc' = "gap"
            /\ hotGaveUp' = (how \in GaveUp)
            /\ UNCHANGED <<all_posts, gaveUpSubs>>
       ELSE /\ all_posts' = all_posts \o _merge_and_deduplicate(hot_posts, posts)
            /\ pc' = "between"
            /\ gaveUpSubs' = IF hotGaveUp /\ how \in GaveUp
                             THEN gaveUpSubs \cup {i} ELSE gaveUpSubs
            /\ UNCHANGED <<hot_posts, hotGaveUp>>
    /\ epEnd' = how
    /\ epRet' = posts
    /\ UNCHANGED <<config, i, failed_subreddits, ret, afterRateCap, started,
                   trace>>

\* reddit.py:262-264: an exception leaves _fetch_subreddit and is caught
SubredditFailed ==
    /\ failed_subreddits' = Append(failed_subreddits, CurrentSub)
    /\ pc' = "between"
    /\ UNCHANGED <<config, i, hot_posts, all_posts, ret, hotGaveUp, gaveUpSubs,
                   started>>

\* an exception that is no RequestException leaves _fetch_subreddit_posts
EndpointRaises(a, r) ==
    /\ attempt' = a
    /\ rate_limit_retries' = r
    /\ epEnd' = "raised"
    /\ epRet' = <<>>
    /\ UNCHANGED <<afterRateCap, lastBody, trace>>
    /\ SubredditFailed

\* the for loop of reddit.py:87 goes on to attempt a; past the last attempt
\* it falls through to "return []" at reddit.py:152
EndpointContinues(a, r) ==
    IF a < max_retries
    THEN /\ attempt' = a
         /\ rate_limit_retries' = r
         /\ UNCHANGED <<config, pc, i, hot_posts, all_posts, failed_subreddits,
                        ret, epEnd, epRet, lastBody, afterRateCap, hotGaveUp,
                        gaveUpSubs, started, trace>>
    ELSE /\ EndpointReturns(<<>>, "loopend", a, r)
         /\ UNCHANGED lastBody

\* reddit.py:252-256
FetchAllCall ==
    /\ pc = "call"
    /\ UNCHANGED <<regVars, pureVars>>
    /\ IF ~is_enabled(config)
       THEN /\ ret' = DisabledResult
            /\ pc' = "returned"
            /\ UNCHANGED <<i, attempt, rate_limit_retries, epLog, epEnd, epRet,
                           lastBody, afterRateCap, started, trace>>
       ELSE /\ i' = 1
            /\ pc' = "hot"
            /\ started' = <<config.subreddits[1]>>
            /\ trace' = <<Event("hot", config.subreddits[1], 0)>>
            /\ BeginEndpoint
            /\ UNCHANGED ret
    /\ all_posts' = <<>>
    /\ failed_subreddits' = <<>>
    /\ UNCHANGED <<config, hot_posts, lastSleep, hotGaveUp, gaveUpSubs,
                   sinceRequest>>

\* reddit.py:89-138: the GET is answered 200 with a listing
RequestOk(body) ==
    /\ InEndpoint
    /\ UNCHANGED <<regVars, pureVars>>
    /\ epLog' = Append(epLog, Entry("ok", attempt, FALSE))
    /\ lastBody' = body
    /\ UNCHANGED lastSleep
    /\ sinceRequest' = "get"
    /\ EndpointReturns(ExtractPosts(body, CurrentSub), "ok", attempt,
                       rate_limit_retries)

\* reddit.py:89-138: an exception that is no requests.RequestException, such
\* as a listing that is no JSON object
RequestUnexpected ==
    /\ InEndpoint
    /\ UNCHANGED <<regVars, pureVars>>
    /\ epLog' = Append(epLog, Entry("unexpected", attempt, FALSE))
    /\ UNCHANGED lastSleep
    /\ sinceRequest' = "get"
    /\ EndpointRaises(attempt, rate_limit_retries)

\* reddit.py:140-150: requests.get or raise_for_status raises a
\* RequestException
RequestFail(jitter) ==
    /\ InEndpoint
    /\ UNCHANGED <<regVars, pureVars>>
    /\ IF MayRetry(attempt)
       THEN /\ epLog' = Append(epLog, Entry("fail", attempt, TRUE))
            /\ lastSleep' = Sleep("backoff", BackoffMs(attempt, jitter), <<>>)
            /\ sinceRequest' = "slept"
            /\ EndpointContinues(attempt + 1, rate_limit_retries)
       ELSE /\ epLog' = Append(epLog, Entry("fail", attempt, FALSE))
            /\ UNCHANGED <<lastSleep, lastBody>>
            /\ sinceRequest' = "get"
            /\ EndpointReturns(<<>>, "exhausted", attempt, rate_limit_retries)

\* a fault: a 429 within the cap is retried at once, without a wait
Request429NoWait(header) ==
    /\ InEndpoint
    /\ UNCHANGED <<regVars, pureVars>>
    /\ sinceRequest' = "get"
    /\ LET r == rate_limit_retries + 1
       IN  IF RateLimitExceeded(r)
           THEN /\ epLog' = Append(epLog, Entry("429", attempt, FALSE))
                /\ UNCHANGED <<lastSleep, lastBody>>
                /\ EndpointReturns(<<>>, "ratecap", attempt, r)
           ELSE /\ epLog' = Append(epLog, Entry("429", attempt, FALSE))
                /\ UNCHANGED lastSleep
                /\ EndpointContinues(AttemptAfter429(attempt), r)

\* reddit.py:98-109: the GET is answered 429
Request429(header) ==
    /\ InEndpoint
    /\ UNCHANGED <<regVars, pureVars>>
    /\ LET r == rate_limit_retries + 1
       IN  IF RateLimitExceeded(r)
           THEN /\ epLog' = Append(epLog, Entry("429", attempt, FALSE))
                /\ UNCHANGED <<lastSleep, lastBody>>
                /\ sinceRequest' = "get"
                /\ EndpointReturns(<<>>, "ratecap", attempt, r)
           ELSE IF RetryAfterRaises(header)
           THEN /\ epLog' = Append(epLog, Entry("429", attempt, FALSE))
                /\ UNCHANGED lastSleep
                /\ sinceRequest' = "get"
                /\ EndpointRaises(attempt, r)
           ELSE /\ epLog' = Append(epLog, Entry("429", attempt, TRUE))
                /\ lastSleep' =
                       Sleep("ratelimit", RetryAfter(header) * 1000, header)
                /\ IF SleepRaises(RetryAfter(header) * 1000)
                   THEN /\ sinceRequest' = "get"
                        /\ EndpointRaises(attempt, r)
                   ELSE /\ sinceRequest' = "slept"
                        /\ EndpointContinues(AttemptAfter429(attempt), r)

\* reddit.py:234: the pause between the hot and the top request; the
\* ValueError of a negative pause is caught at reddit.py:262
Gap ==
    /\ pc = "gap"
    /\ UNCHANGED <<regVars, pureVars>>
    /\ lastSleep' = Sleep("interval", IntervalMs(config), <<>>)
    /\ sinceRequest' = IF SleepRaises(IntervalMs(config)) THEN sinceRequest
                       ELSE "slept"
    /\ IF SleepRaises(IntervalMs(config))
       THEN /\ SubredditFailed
            /\ DropLocals
            /\ trace' = Append(trace, Event("gap", CurrentSub, IntervalMs(config)))
       ELSE /\ pc' = "top"
            /\ BeginEndpoint
            /\ trace' = trace \o <<Event("gap", CurrentSub, IntervalMs(config)),
                                    Event("top", CurrentSub, 0)>>
            /\ UNCHANGED <<config, i, hot_posts, all_posts, failed_subreddits,
                           ret, hotGaveUp, gaveUpSubs, started>>

\* reddit.py:266-268 and the step of the loop at reddit.py:258; the
\* ValueError of a negative pause is outside the try block and leaves
\* fetch_all
Between ==
    /\ pc = "between"
    /\ UNCHANGED <<regVars, pureVars>>
    /\ IF i < Len(config.subreddits)
       THEN /\ lastSleep' = Sleep("interval", IntervalMs(config), <<>>)
            /\ IF SleepRaises(IntervalMs(config))
               THEN /\ pc' = "raised"
                    /\ DropLocals
                    /\ trace' = Append(trace, Event("between", CurrentSub,
                                                    IntervalMs(config)))
                    /\ UNCHANGED <<i, started, sinceRequest>>
               ELSE /\ i' = i + 1
                    /\ pc' = "hot"
                    /\ sinceRequest' = "slept"
                    /\ started' = Append(started, config.subreddits[i + 1])
                    /\ trace' = trace \o
                           <<Event("between", CurrentSub, IntervalMs(config)),
                             Event("hot", config.subreddits[i + 1], 0)>>
                    /\ BeginEndpoint
       ELSE /\ pc' = "finish"
            /\ DropLocals
            /\ UNCHANGED <<i, started, lastSleep, trace, sinceRequest>>
    /\ hot_posts' = <<>>
    /\ hotGaveUp' = FALSE
    /\ UNCHANGED <<config, all_posts, failed_subreddits, ret, gaveUpSubs>>

\* a fault: the names of the failed subreddits are returned as failed_ids
FailedIdsAsSubreddits(failed) == failed

\* reddit.py:276
FailedIds(failed) == IF failed # <<>> THEN <<platform_id>> ELSE <<>>

\* reddit.py:270-281
Finish ==
    /\ pc = "finish"
    /\ UNCHANGED <<regVars, pureVars>>
    /\ ret' = IF all_posts = <<>>
              THEN Returned(EmptyMap, EmptyMap, <<platform_id>>)
              ELSE Returned(platform_id :> _transform_to_trendradar_format(all_posts),
                            platform_id :> platform_name,
                            FailedIds(failed_subreddits))
    /\ pc' = "returned"
    /\ UNCHANGED <<config, i, attempt, rate_limit_retries, hot_posts, all_posts,
                   failed_subreddits, epLog, lastSleep, epEnd, epRet, lastBody,
                   afterRateCap, hotGaveUp, gaveUpSubs, started, trace,
                   sinceRequest>>

Next ==
    \/ FetchAllCall
    \/ \E body \in Bodies : RequestOk(body)
    \/ RequestUnexpected
    \/ \E jitter \in Jitters : RequestFail(jitter)
    \/ \E header \in RetryAfterHeaders : Request429(header)
    \/ Gap
    \/ Between
    \/ Finish

Spec == Init /\ [][Next]_vars

\* the interpreter runs a started call until it returns or raises
FairSpec == Spec /\ WF_vars(Next)

(***************************************************************************)
(* The registry's functions                                                *)
(***************************************************************************)
\* __init__.py:16-30: @register_platform(id) applied to cls
register_platform(id, cls) ==
    /\ PLATFORM_REGISTRY' = RegistryPut(PLATFORM_REGISTRY, id, cls)
    /\ call' = Call("register_platform", id, cls, NoCall.result)
    /\ UNCHANGED <<extConfig, proxyUrl>>
    /\ UNCHANGED <<fetchVars, pureVars>>

\* __init__.py:33-40
get_platform_fetcher(id) ==
    /\ call' = Call("get_platform_fetcher", id, "",
                    GetPlatformFetcherResult(PLATFORM_REGISTRY, id, extConfig,
                                             proxyUrl))
    /\ UNCHANGED <<PLATFORM_REGISTRY, extConfig, proxyUrl>>
    /\ UNCHANGED <<fetchVars, pureVars>>

\* __init__.py:43-65
get_all_enabled_fetchers ==
    /\ call' = Call("get_all_enabled_fetchers", "", "",
                    GetAllEnabledFetchersResult(PLATFORM_REGISTRY, extConfig,
                                                proxyUrl))
    /\ UNCHANGED <<PLATFORM_REGISTRY, extConfig, proxyUrl>>
    /\ UNCHANGED <<fetchVars, pureVars>>

RegistryNext ==
    \/ \E id \in PlatformIds, cls \in Classes : register_platform(id, cls)
    \/ \E id \in PlatformIds \cup {"unknown"} : get_platform_fetcher(id)
    \/ get_all_enabled_fetchers

\* the fetcher the registry specification leaves untouched
IdleConfig == [enabled |-> "true", subreddits |-> <<"a">>, request_interval |-> 2000]

RegistryStart ==
    /\ FetcherInit({IdleConfig})
    /\ RegistryInit(RegistryConfigs, Proxies)
    /\ PureInit({NoArgs})

RegistrySpec == RegistryStart /\ [][RegistryNext]_vars

(***************************************************************************)
(* Platform validation (src/mcp_server/utils/validators.py)                *)
(***************************************************************************)
\* the "platforms" list of config.yaml; an entry is <<id>>, or <<>> for a
\* mapping without an "id" key; a missing "platforms" key reads as <<>>
PlatformLists ==
    { <<>>,
      << <<"zhihu">> >>,
      << <<>>, <<"zhihu">> >>,
      << <<"zhihu">>, <<"weibo">> >> }

\* config.yaml cannot be opened or parsed, or holds no mapping
Unreadable == [kind |-> "unreadable"]

\* config.yaml as validators.py:33-34 finds it
ConfigFiles ==
    {Unreadable} \cup
    [kind : {"loaded"}, platforms : PlatformLists,
     external_platforms : RegistryConfigs]

\* the order of external_platforms.items()
ExternalOrder == <<"reddit", "hn">>

\* validators.py:38  [p['id'] for p in platforms if 'id' in p]
RECURSIVE ListedIds(_)
ListedIds(entries) ==
    IF entries = <<>> THEN <<>>
    ELSE Head(entries) \o ListedIds(Tail(entries))

\* validators.py:43: platform_config.get on a null section raises
\* AttributeError
ExternalLookupRaises(ext) == \E id \in DOMAIN ext : ext[id] = Null

\* validators.py:42-44: the external platforms marked enabled, in order
RECURSIVE EnabledExternal(_, _)
EnabledExternal(ids, ext) ==
    IF ids = <<>> THEN <<>>
    ELSE LET section == ext[Head(ids)]
             rest == EnabledExternal(Tail(ids), ext)
         IN  IF section = Missing THEN rest
             ELSE IF SectionEnabled(section) THEN <<Head(ids)>> \o rest
             ELSE rest

\* validators.py:16-50: every exception ends in "return []"
get_supported_platforms(file) ==
    IF file.kind = "unreadable" THEN <<>>
    ELSE IF ExternalLookupRaises(file.external_platforms) THEN <<>>
    ELSE ListedIds(file.platforms) \o
         EnabledExternal(ExternalOrder, file.external_platforms)

\* the platforms argument: None, a value that is no list, or a list of ids
NoneArg == [kind |-> "none", items |-> <<>>]

NotAList == [kind |-> "other", items |-> <<>>]

ListArg(items) == [kind |-> "list", items |-> items]

PlatformArgs ==
    {NoneArg, NotAList} \cup
    {ListArg(l) : l \in { <<>>, <<"zhihu">>, <<"bogus">>, <<"reddit">>,
                          <<"zhihu", "bogus">>, <<"zhihu", "reddit">> }}

ReturnsList(l) == [status |-> "returned", value |-> l]

RaisesInvalidParameter == [status |-> "raised", value |-> <<>>]

\* validators.py:90
invalid_platforms(items, supported) ==
    SelectSeq(items, LAMBDA p : \A k \in 1..Len(supported) : supported[k] # p)

\* validators.py:53-97
validate_platforms(platforms, file) ==
    LET supported_platforms == get_supported_platforms(file)
    IN  IF platforms.kind = "none" THEN ReturnsList(supported_platforms)
        ELSE IF platforms.kind # "list" THEN RaisesInvalidParameter
        ELSE IF platforms.items = <<>> THEN ReturnsList(supported_platforms)
        ELSE IF supported_platforms = <<>> THEN ReturnsList(platforms.items)
        ELSE IF invalid_platforms(platforms.items, supported_platforms) # <<>>
        THEN RaisesInvalidParameter
        ELSE ReturnsList(platforms.items)

(***************************************************************************)
(* Calls of the methods that depend on their arguments only                *)
(***************************************************************************)
\* longest hot or top list handed to _merge_and_deduplicate
MaxMergeLen == 2

\* longest post list handed to _transform_to_trendradar_format
MaxPosts == 3

\* longest such list whose posts have permalinks of every kind
MaxLinked == 2

\* every list of at most n elements of S
ListsUpTo(S, n) == UNION {[1..m -> S] : m \in 0..n}

\* permalinks of a post: missing, a path, no path, a path after blanks
Permalinks == {<<>>, <<"/", "x">>, <<"z">>, <<" ", "/", "x">>}

\* post dicts (reddit.py:127-136) that differ in id and upvotes
MergePosts ==
    [id : {"x", "y"}, title : {<<"A">>}, upvotes : {1, 5, 9},
     permalink : {<<"/", "x">>}, subreddit : {"a"}]

\* post dicts that differ in title, upvotes and subreddit, with a path for
\* a permalink or none
RankedPosts ==
    [id : {"x"}, title : {<<"A">>, <<"B">>}, upvotes : {1, 5},
     permalink : {<<>>, <<"/", "x">>}, subreddit : SubNames]

\* post dicts that differ in permalink as well
LinkedPosts ==
    [id : {"x"}, title : {<<"A">>, <<"B">>}, upvotes : {1, 5},
     permalink : Permalinks, subreddit : SubNames]

IsEnabledArgs == [fn : {"is_enabled"}, config : Configs]

MergeArgs ==
    [fn : {"merge"}, hot : ListsUpTo(MergePosts, MaxMergeLen),
     top : ListsUpTo(MergePosts, MaxMergeLen)]

TransformArgs ==
    [fn : {"transform"},
     posts : ListsUpTo(RankedPosts, MaxPosts) \cup ListsUpTo(LinkedPosts, MaxLinked)]

ValidateArgs ==
    [fn : {"validate_platforms"}, platforms : PlatformArgs, file : ConfigFiles]

PureArgs == IsEnabledArgs \cup MergeArgs \cup TransformArgs \cup ValidateArgs

\* a call that has not returned yet
Pending(fn) == fnArgs.fn = fn /\ fnRet = <<>>

\* reddit.py:54-55: self.is_enabled()
CallIsEnabled ==
    /\ Pending("is_enabled")
    /\ fnRet' = <<is_enabled(fnArgs.config)>>
    /\ UNCHANGED <<fnArgs, fetchVars, regVars>>

\* reddit.py:238: self._merge_and_deduplicate(hot_posts, top_posts)
CallMerge ==
    /\ Pending("merge")
    /\ fnRet' = <<_merge_and_deduplicate(fnArgs.hot, fnArgs.top)>>
    /\ UNCHANGED <<fnArgs, fetchVars, regVars>>

\* reddit.py:274: self._transform_to_trendradar_format(all_posts)
CallTransform ==
    /\ Pending("transform")
    /\ fnRet' = <<_transform_to_trendradar_format(fnArgs.posts)>>
    /\ UNCHANGED <<fnArgs, fetchVars, regVars>>

\* validators.py:53-97: validate_platforms(platforms)
CallValidatePlatforms ==
    /\ Pending("validate_platforms")
    /\ fnRet' = <<validate_platforms(fnArgs.platforms, fnArgs.file)>>
    /\ UNCHANGED <<fnArgs, fetchVars, regVars>>

PureNext ==
    \/ CallIsEnabled
    \/ CallMerge
    \/ CallTransform
    \/ CallValidatePlatforms

PureStart ==
    /\ FetcherInit({IdleConfig})
    /\ RegistryInit({IdleRegistryConfig}, {""})
    /\ PureInit(PureArgs)

PureSpec == PureStart /\ [][PureNext]_vars

(***************************************************************************)
(* Properties of RedditFetcher                                             *)
(***************************************************************************)
\* the fetch_all call is over
CallOver == pc \in {"returned", "raised"}

\* the request the endpoint fetch made last
LastEntry == epLog[Len(epLog)]

\* how many requests of the endpoint fetch were answered resp
Count(resp) == Cardinality({k \in 1..Len(epLog) : epLog[k].resp = resp})

\* the rank positions of all entries of a title map
AllRanks(m) == UNION {{m[t].ranks[k] : k \in 1..Len(m[t].ranks)} : t \in DOMAIN m}

RECURSIVE SumRankLens(_, _)
SumRankLens(m, titles) ==
    IF titles = {} THEN 0
    ELSE LET t == CHOOSE u \in titles : TRUE
         IN  Len(m[t].ranks) + SumRankLens(m, titles \ {t})

\* C1: once constructed, fetch_all never lets an exception out: whatever the
\* accepted configuration and the answers of the endpoints, the call ends by
\* returning a triple.
C1_FetchAllNeverRaises == pc # "raised"

\* C2: a 429 answer is retried without using up a transport attempt: while
\* an endpoint fetch runs, the attempts used are the transport failures seen,
\* and it gives up on transport only after max_retries transport failures.
C2_RateLimitKeepsAttempts ==
    /\ InEndpoint => attempt = Count("fail")
    /\ epEnd \in {"exhausted", "loopend"} => Count("fail") = max_retries

\* C3: an exception leaving the fetch of one subreddit is caught and the
\* subreddit recorded as failed, every later subreddit is still fetched in
\* configured order, and the posts of the subreddits that succeeded are all
\* in the returned results, ranked 1..N.
C3_FailureIsolation ==
    /\ epEnd = "raised" =>
          /\ pc = "between"
          /\ failed_subreddits # <<>>
          /\ failed_subreddits[Len(failed_subreddits)] = CurrentSub
    /\ (CallOver /\ is_enabled(config)) =>
          /\ pc = "returned"
          /\ started = config.subreddits
          /\ failed_subreddits # <<>> => ret.failed_ids = <<platform_id>>
          /\ all_posts # <<>> =>
                LET m == ret.results[platform_id]
                IN  /\ \A k \in 1..Len(all_posts) : all_posts[k].title \in DOMAIN m
                    /\ AllRanks(m) = 1..Len(all_posts)
                    /\ SumRankLens(m, DOMAIN m) = Len(all_posts)

\* what C4 says of a returned triple
FailedIdsRule ==
    /\ ret.failed_ids =
          IF all_posts = <<>> \/ failed_subreddits # <<>>
          THEN <<platform_id>> ELSE <<>>
    /\ all_posts = <<>> => ret.results = EmptyMap
    /\ \A k \in gaveUpSubs :
          (all_posts # <<>> /\ failed_subreddits = <<>>) => ret.failed_ids = <<>>

\* C4 as stated: for every returned triple, failed_ids is [platform_id]
\* exactly when no post was collected or a subreddit fetch raised, else [].
C4_FailedIdsAnyFetcher == pc = "returned" => FailedIdsRule

\* C4 as amended: the same, for a fetcher whose is_enabled() is true.  A
\* subreddit whose endpoint fetches only gave up does not mark the platform
\* failed when another subreddit yields posts.
C4_FailedIdsWhenEnabled == (pc = "returned" /\ is_enabled(config)) => FailedIdsRule

\* C4 witness: an enabled fetcher returned posts and no failure although
\* both endpoint fetches of its first subreddit gave up.
C4_Witness ==
    /\ pc = "returned"
    /\ is_enabled(config)
    /\ 1 \in gaveUpSubs
    /\ all_posts # <<>>
    /\ ret.failed_ids = <<>>
    /\ platform_id \in DOMAIN ret.results

\* C5: an endpoint fetch answered 429 more often than the cap allows returns
\* [] without raising, and only then ends at the cap; the next endpoint fetch
\* starts with fresh counters and returns the posts of a listing it gets.
C5_RateCapEmptyAndFresh ==
    /\ Count("429") > max_rate_limit_retries =>
          epEnd = "ratecap" /\ epRet = <<>> /\ pc \in {"gap", "between"}
    /\ epEnd = "ratecap" => Count("429") = max_rate_limit_retries + 1
    /\ (InEndpoint /\ epLog = <<>>) =>
          attempt = 0 /\ rate_limit_retries = 0
    /\ InEndpoint => rate_limit_retries = Count("429")
    /\ (afterRateCap /\ epEnd = "ok") =>
          /\ epRet = ExtractPosts(lastBody, CurrentSub)
          /\ pc = "gap" => hot_posts = epRet

\* C5 witness: an endpoint fetch ended at the rate-limit cap and the next
\* one, answered 429 once and then with a listing, returned its posts.
C5_Witness ==
    /\ afterRateCap
    /\ epEnd = "ok"
    /\ Count("429") = 1
    /\ epRet # <<>>

\* C6: at most max_retries attempts; a transport failure in attempt 0 or 1 is
\* followed by a sleep of 2^attempt s plus a jitter in [0, 1) s and another
\* attempt; one in the last attempt by no sleep and the return of []; a
\* listing is returned at once, with no further request.
C6_TransportRetries ==
    /\ Len(epLog) <= max_retries
    /\ \A k \in 1..Len(epLog) : epLog[k].attempt = k - 1
    /\ epLog # <<>> =>
          /\ (LastEntry.resp = "fail" /\ LastEntry.attempt < max_retries - 1) =>
                /\ LastEntry.slept
                /\ lastSleep.kind = "backoff"
                /\ lastSleep.ms - (2 ^ LastEntry.attempt) * 1000 \in 0..999
                /\ InEndpoint
                /\ attempt = LastEntry.attempt + 1
          /\ (LastEntry.resp = "fail" /\ LastEntry.attempt = max_retries - 1) =>
                /\ ~LastEntry.slept
                /\ epEnd = "exhausted"
                /\ epRet = <<>>
                /\ pc \in {"gap", "between"}
          /\ LastEntry.resp = "ok" =>
                /\ epEnd = "ok"
                /\ epRet = ExtractPosts(lastBody, CurrentSub)
                /\ pc \in {"gap", "between"}

\* C6 witness: two transport failures, then a listing with posts.
C6_Witness ==
    /\ Len(epLog) = 3
    /\ epLog[1].resp = "fail"
    /\ epLog[2].resp = "fail"
    /\ epLog[3].resp = "ok"
    /\ epRet # <<>>

\* an endpoint was answered with something other than a listing, a
\* transport failure or a 429
SawUnexpected == epLog # <<>> /\ LastEntry.resp = "unexpected"

\* C7: every fetch_all call whose endpoints answer with listings, transport
\* failures and 429s ends by returning.
C7_ReachesReturn == <>(pc = "returned" \/ SawUnexpected)

\* C8: the wait after a 429 within the cap is the Retry-After hint, 60 when
\* the header is missing, clamped to at most 120 s, and for every integer
\* header the duration handed to time.sleep lies in 0..120 s.
C8_RateLimitWaitBounded ==
    lastSleep.kind = "ratelimit" =>
        /\ lastSleep.ms =
              1000 * Min(IF lastSleep.hint = <<>> THEN 60
                         ELSE IntOfText(lastSleep.hint[1]), 120)
        /\ lastSleep.ms \in 0..120000

\* a call of the pure method fn has returned
Done(fn) == fnArgs.fn = fn /\ fnRet # <<>>

\* C11: is_enabled() returns true only when the enabled flag is set and the
\* subreddit list is non-empty: it returns false whenever the list is empty,
\* whatever the flag, and whenever the flag is absent or false, whatever the
\* list.
C11_IsEnabledRule ==
    Done("is_enabled") =>
        LET cfg == fnArgs.config
        IN  /\ fnRet[1] = TRUE =>
                  (cfg.enabled = "true" /\ cfg.subreddits # <<>>)
            /\ cfg.subreddits = <<>> => fnRet[1] = FALSE
            /\ cfg.enabled \in {"absent", "false"} => fnRet[1] = FALSE

\* C11 witness: is_enabled() returned false for a configuration whose flag
\* is set and whose subreddit list is empty.
C11_Witness ==
    /\ Done("is_enabled")
    /\ fnArgs.config.enabled = "true"
    /\ fnArgs.config.subreddits = <<>>
    /\ fnRet = <<FALSE>>

\* C12: a fetcher whose is_enabled() is false returns ({}, {}, []) from
\* fetch_all at once: no endpoint fetch is begun, no request made, time.sleep
\* never called, and the platform is not reported as failed.
C12_DisabledReturnsAtOnce ==
    ~is_enabled(config) =>
        /\ pc \in {"call", "returned"}
        /\ trace = <<>>
        /\ epLog = <<>>
        /\ started = <<>>
        /\ lastSleep = NoSleep
        /\ pc = "returned" =>
              /\ ret.status = "returned"
              /\ ret.results = EmptyMap
              /\ ret.id_to_name = EmptyMap
              /\ ret.failed_ids = <<>>

\* C12 witness: fetch_all returned for a fetcher with two subreddits whose
\* enabled flag is false.
C12_Witness ==
    /\ pc = "returned"
    /\ config.enabled = "false"
    /\ Len(config.subreddits) = 2
    /\ ret.failed_ids = <<>>

IsHot(e) == e.ev = "hot"

IsBetween(e) == e.ev = "between"

\* C13: the endpoint fetches and request_interval sleeps of one fetch_all
\* call form a sequential, paced schedule: subreddits are begun in configured
\* order; the top fetch of a subreddit comes straight after one
\* request_interval sleep that follows the hot fetch of the same subreddit;
\* every subreddit after the first begins straight after exactly one
\* request_interval sleep, also when the subreddit before failed; no sleep
\* follows the last subreddit.
C13_SequentialPaced ==
    LET hots == SelectSeq(trace, IsHot)
        betweens == SelectSeq(trace, IsBetween)
    IN  /\ Len(hots) <= Len(config.subreddits)
        /\ \A k \in 1..Len(hots) : hots[k].sub = config.subreddits[k]
        /\ Len(betweens) <= Len(config.subreddits) - 1 \/ trace = <<>>
        /\ \A k \in 1..Len(trace) :
              LET e == trace[k]
              IN  /\ e.ev \in {"gap", "between"} => e.ms = config.request_interval
                  /\ e.ev = "hot" => (k = 1 \/ trace[k - 1].ev = "between")
                  /\ e.ev = "gap" =>
                        /\ k > 1
                        /\ trace[k - 1].ev = "hot"
                        /\ trace[k - 1].sub = e.sub
                  /\ e.ev = "top" =>
                        /\ k > 2
                        /\ trace[k - 1].ev = "gap"
                        /\ trace[k - 2].ev = "hot"
                        /\ trace[k - 2].sub = e.sub
                  /\ e.ev = "between" =>
                        /\ k > 1
                        /\ trace[k - 1].ev # "between"
                        /\ trace[k - 1].sub = e.sub
        /\ (pc = "returned" /\ trace # <<>>) =>
              /\ Len(hots) = Len(config.subreddits)
              /\ Len(betweens) = Len(config.subreddits) - 1
              /\ trace[Len(trace)].ev # "between"

\* C13 witness: a call over two subreddits returned; the first failed in its
\* hot fetch, and the second was fetched hot, then top, after one sleep each.
C13_Witness ==
    /\ pc = "returned"
    /\ config.subreddits = <<"a", "b">>
    /\ config.request_interval = 2000
    /\ failed_subreddits = <<"a">>
    /\ trace = <<Event("hot", "a", 0), Event("between", "a", 2000),
                 Event("hot", "b", 0), Event("gap", "b", 2000),
                 Event("top", "b", 0)>>

\* the elements of a list
SeqSet(s) == {s[k] : k \in 1..Len(s)}

\* the identifiers of the posts of a list
PostIds(posts) == {posts[k].id : k \in 1..Len(posts)}

\* C14: _merge_and_deduplicate(hot, top) returns exactly one record for
\* every identifier that occurs in hot or top, also for one repeated within
\* a list; that record is one of the input copies and its upvotes are the
\* maximum over all input copies of the identifier; no other identifier is
\* in the output.
C14_MergeUniqueMax ==
    Done("merge") =>
        LET inp == fnArgs.hot \o fnArgs.top
            out == fnRet[1]
        IN  /\ PostIds(out) = PostIds(inp)
            /\ \A a, b \in 1..Len(out) : out[a].id = out[b].id => a = b
            /\ \A a \in 1..Len(out) :
                  /\ out[a] \in SeqSet(inp)
                  /\ \A k \in 1..Len(inp) :
                        inp[k].id = out[a].id => inp[k].upvotes <= out[a].upvotes

\* C14 witness: an identifier occurs twice in hot, the second copy with more
\* upvotes, and again in top with fewer; the one record returned has the
\* upvotes of the second hot copy.
C14_Witness ==
    /\ Done("merge")
    /\ Len(fnArgs.hot) = 2
    /\ fnArgs.top # <<>>
    /\ fnArgs.hot[1].id = fnArgs.hot[2].id
    /\ fnArgs.top[1].id = fnArgs.hot[1].id
    /\ fnArgs.hot[1].upvotes < fnArgs.top[1].upvotes
    /\ fnArgs.top[1].upvotes < fnArgs.hot[2].upvotes
    /\ fnRet[1] = <<fnArgs.hot[2]>>

\* the 1-based position of posts[k] in a stable sort by upvotes descending:
\* after every post with more upvotes and every earlier post with as many
StableRank(posts, k) ==
    1 + Cardinality({j \in 1..Len(posts) :
                        \/ posts[j].upvotes > posts[k].upvotes
                        \/ posts[j].upvotes = posts[k].upvotes /\ j < k})

\* the positions of the posts with title t
Occurrences(posts, t) == {k \in 1..Len(posts) : posts[k].title = t}

Increasing(s) == \A a, b \in 1..Len(s) : a < b => s[a] < s[b]

\* C15: _transform_to_trendradar_format on N records gives each record the
\* 1-based position of a stable sort by upvotes descending: the ranks over
\* all rank lists are exactly 1..N, each once; a record with more upvotes
\* has a smaller rank; records with equal upvotes keep their input order.
C15_RanksStableSort ==
    Done("transform") =>
        LET posts == fnArgs.posts
            m == fnRet[1]
        IN  /\ DOMAIN m = {posts[k].title : k \in 1..Len(posts)}
            /\ AllRanks(m) = 1..Len(posts)
            /\ SumRankLens(m, DOMAIN m) = Len(posts)
            /\ \A t \in DOMAIN m :
                  SeqSet(m[t].ranks) =
                      {StableRank(posts, k) : k \in Occurrences(posts, t)}
            /\ \A j, k \in 1..Len(posts) :
                  /\ posts[j].upvotes > posts[k].upvotes =>
                        StableRank(posts, j) < StableRank(posts, k)
                  /\ (posts[j].upvotes = posts[k].upvotes /\ j < k) =>
                        StableRank(posts, j) < StableRank(posts, k)

\* C15 witness: three records, the first two with equal upvotes and
\* different titles, the third with more upvotes: the third has rank 1 and
\* the first two ranks 2 and 3 in their input order.
C15_Witness ==
    /\ Done("transform")
    /\ Len(fnArgs.posts) = 3
    /\ fnArgs.posts[1].title = <<"A">>
    /\ fnArgs.posts[2].title = <<"B">>
    /\ fnArgs.posts[3].title = <<"B">>
    /\ fnArgs.posts[1].upvotes = fnArgs.posts[2].upvotes
    /\ fnArgs.posts[3].upvotes > fnArgs.posts[1].upvotes
    /\ fnRet[1][<<"A">>].ranks = <<2>>
    /\ fnRet[1][<<"B">>].ranks = <<1, 3>>

\* the post of title t that is first in sorted order, the one the entry of
\* t is made from
FirstOccurrence(posts, t) ==
    CHOOSE k \in Occurrences(posts, t) :
        \A j \in Occurrences(posts, t) : StableRank(posts, k) <= StableRank(posts, j)

\* C16: when two records from different subreddits have the same title, the
\* result has one entry for the title; its rank list has at least two ranks,
\* holds the rank of each occurrence, and is in the order the occurrences
\* are met (ascending); url and mobileUrl are equal and are those of the
\* first occurrence met.
C16_SameTitleOneEntry ==
    Done("transform") =>
        LET posts == fnArgs.posts
            m == fnRet[1]
        IN  \A a, b \in 1..Len(posts) :
                (/\ a < b
                 /\ posts[a].title = posts[b].title
                 /\ posts[a].subreddit # posts[b].subreddit) =>
                    LET t == posts[a].title
                    IN  /\ t \in DOMAIN m
                        /\ Len(m[t].ranks) >= 2
                        /\ Len(m[t].ranks) = Cardinality(Occurrences(posts, t))
                        /\ StableRank(posts, a) \in SeqSet(m[t].ranks)
                        /\ StableRank(posts, b) \in SeqSet(m[t].ranks)
                        /\ Increasing(m[t].ranks)
                        /\ m[t].url = m[t].mobileUrl
                        /\ m[t].url = PostUrl(posts[FirstOccurrence(posts, t)])

\* C16 witness: one title from subreddits a and b, the record of b later in
\* the input but with more upvotes: ranks <<1, 2>> and the url of b's record.
C16_Witness ==
    /\ Done("transform")
    /\ Len(fnArgs.posts) = 2
    /\ fnArgs.posts[1].title = fnArgs.posts[2].title
    /\ fnArgs.posts[1].subreddit = "a"
    /\ fnArgs.posts[2].subreddit = "b"
    /\ fnArgs.posts[1].permalink = <<>>
    /\ fnArgs.posts[2].permalink = <<>>
    /\ fnArgs.posts[2].upvotes > fnArgs.posts[1].upvotes
    /\ fnRet[1][fnArgs.posts[1].title].ranks = <<1, 2>>
    /\ fnRet[1][fnArgs.posts[1].title].url = <<"https://reddit.com/r/", "b">>

\* the url the statement of C19 gives a record
UrlAsStated(permalink, subreddit) ==
    IF permalink # <<>> /\ Head(permalink) = "/"
    THEN <<"https://reddit.com">> \o permalink
    ELSE <<"https://reddit.com/r/", subreddit>>

\* C19 as stated: the url of an entry is the canonical url formed from the
\* permalink of its record when the permalink is non-empty and starts with
\* "/", and the url of the record's own subreddit when the permalink is
\* empty or does not start with "/".
C19_UrlFromPermalink ==
    Done("transform") =>
        \A t \in DOMAIN fnRet[1] :
            LET post == fnArgs.posts[FirstOccurrence(fnArgs.posts, t)]
            IN  fnRet[1][t].url = UrlAsStated(post.permalink, post.subreddit)

\* C19 as amended: the same of the permalink with surrounding blanks
\* stripped: the canonical url is formed from the stripped permalink, and a
\* permalink that is empty or has no leading "/" after stripping gives the
\* url of the record's own subreddit.
C19_UrlFromStrippedPermalink ==
    Done("transform") =>
        \A t \in DOMAIN fnRet[1] :
            LET post == fnArgs.posts[FirstOccurrence(fnArgs.posts, t)]
            IN  /\ fnRet[1][t].url =
                      UrlAsStated(Strip(post.permalink), post.subreddit)
                /\ fnRet[1][t].mobileUrl = fnRet[1][t].url

\* C19 witness: records of subreddit b with the permalinks "" and "z" both
\* got the url of subreddit b.
C19_Witness ==
    /\ Done("transform")
    /\ Len(fnArgs.posts) = 2
    /\ fnArgs.posts[1] = [id |-> "x", title |-> <<"A">>, upvotes |-> 5,
                          permalink |-> <<>>, subreddit |-> "b"]
    /\ fnArgs.posts[2] = [id |-> "x", title |-> <<"B">>, upvotes |-> 1,
                          permalink |-> <<"z">>, subreddit |-> "b"]
    /\ fnRet[1][<<"A">>].url = <<"https://reddit.com/r/", "b">>
    /\ fnRet[1][<<"B">>].url = <<"https://reddit.com/r/", "b">>

\* the requests of the endpoint fetch that were followed by a time.sleep
Waits == {k \in 1..Len(epLog) : epLog[k].slept}

\* C20: one endpoint fetch makes at most max_retries = 3 GET requests,
\* transport failures and 429 answers counted together, and so waits at most
\* twice (backoff or rate limit) before it returns.
C20_AtMostThreeGetsTwoWaits ==
    /\ Len(epLog) <= max_retries
    /\ Cardinality(Waits) <= max_retries - 1

\* C21: any two consecutive GET requests of one fetch_all call are
\* separated by a time.sleep that returned: whenever a request is about to
\* be made and one was made before, a sleep has returned since, and it was
\* the request_interval delay, a transport backoff of at least 1 s or a
\* rate-limit wait; so within an endpoint fetch, between hot and top,
\* between subreddits and after a subreddit fetch that raised.
C21_RequestsPaced ==
    InEndpoint =>
        /\ sinceRequest # "get"
        /\ sinceRequest = "slept" =>
              /\ lastSleep.kind \in {"interval", "backoff", "ratelimit"}
              /\ lastSleep.ms >= 0
              /\ lastSleep.kind = "interval" =>
                    lastSleep.ms = config.request_interval
              /\ lastSleep.kind = "backoff" => lastSleep.ms >= 1000
        /\ epLog # <<>> => (sinceRequest = "slept" /\ LastEntry.slept)

\* C21 witness: the first subreddit's fetch raised, and the second
\* subreddit's hot endpoint, reached after the sleep between subreddits,
\* was answered 429 and is about to be requested again after the wait.
C21_Witness ==
    /\ pc = "hot"
    /\ i = 2
    /\ failed_subreddits = <<config.subreddits[1]>>
    /\ Len(trace) = 3
    /\ Len(epLog) = 1
    /\ LastEntry.resp = "429"
    /\ sinceRequest = "slept"
    /\ lastSleep.kind = "ratelimit"

\* the stripped titles of the records of the listings that are not
\* stickied and whose title is not blank
KeptTitles ==
    UNION {{Strip(body[k].title) :
               k \in {j \in 1..Len(body) :
                         ~body[j].stickied /\ Strip(body[j].title) # <<>>}} :
           body \in Bodies}

\* C22: every triple fetch_all returns has this shape: results and
\* id_to_name have the same keys, none or platform_id alone; under
\* platform_id the title map is non-empty and each of its keys is the
\* non-empty, stripped title of a record that is not stickied; failed_ids is
\* [] or [platform_id].
C22_ReturnShape ==
    pc = "returned" =>
        /\ ret.status = "returned"
        /\ DOMAIN ret.results = DOMAIN ret.id_to_name
        /\ DOMAIN ret.results \in {{}, {platform_id}}
        /\ platform_id \in DOMAIN ret.results =>
              LET m == ret.results[platform_id]
              IN  /\ DOMAIN m # {}
                  /\ \A t \in DOMAIN m :
                        /\ t # <<>>
                        /\ Strip(t) = t
                        /\ t \in KeptTitles
        /\ ret.failed_ids \in {<<>>, <<platform_id>>}

\* C22 witness: a call in which one subreddit failed returned a title map
\* that has the title "B", sent as " B", next to failed_ids = [platform_id].
C22_Witness ==
    /\ pc = "returned"
    /\ failed_subreddits # <<>>
    /\ DOMAIN ret.results = {platform_id}
    /\ DOMAIN ret.id_to_name = {platform_id}
    /\ <<"B">> \in DOMAIN ret.results[platform_id]
    /\ ret.failed_ids = <<platform_id>>

(***************************************************************************)
(* Properties of the registry                                              *)
(***************************************************************************)
\* the fetchers the last get_all_enabled_fetchers call returned
Discovered == {call.result.value[k] : k \in 1..Len(call.result.value)}

\* C9: every fetcher get_all_enabled_fetchers returns is enabled: a
\* RedditFetcher whose section has enabled set but no subreddit is not
\* returned.
C9_ReturnedFetchersEnabled ==
    (call.op = "get_all_enabled_fetchers" /\ call.result.status = "returned") =>
        \A f \in Discovered : f.cls = "RedditFetcher" => is_enabled(f)

\* C10: get_all_enabled_fetchers never aborts: a platform whose constructor
\* raises or whose section is malformed is skipped, and every other
\* registered platform that is marked enabled and whose constructor succeeds
\* is in the returned list.
C10_DiscoveryIsolated ==
    call.op = "get_all_enabled_fetchers" =>
        /\ call.result.status = "returned"
        /\ \A k \in 1..Len(PLATFORM_REGISTRY) :
              LET item == PLATFORM_REGISTRY[k]
                  section == ConfigGet(extConfig, item.id)
              IN  (/\ section.kind = "mapping"
                   /\ SectionEnabled(section)
                   /\ ~ConstructorRaises(item.cls, section)) =>
                      Construct(item.cls, section, proxyUrl) \in Discovered

\* the constructor PLATFORM_REGISTRY[id]
Registered(registry, id) == registry[RegistryIndex(registry, id)].cls

\* C17: PLATFORM_REGISTRY maps every identifier ever registered to the
\* constructor of its most recent registration: a register_platform call
\* sets the entry of its identifier, also when one exists, and leaves every
\* other entry as it is; no identifier is ever removed; get_platform_fetcher
\* and get_all_enabled_fetchers leave the registry unchanged.
C17_RegistryLastWins ==
    [][/\ RegistryIds(PLATFORM_REGISTRY) \subseteq RegistryIds(PLATFORM_REGISTRY')
       /\ \A a, b \in 1..Len(PLATFORM_REGISTRY') :
             PLATFORM_REGISTRY'[a].id = PLATFORM_REGISTRY'[b].id => a = b
       /\ call'.op = "register_platform" =>
             /\ RegistryIds(PLATFORM_REGISTRY') =
                    RegistryIds(PLATFORM_REGISTRY) \cup {call'.id}
             /\ Registered(PLATFORM_REGISTRY', call'.id) = call'.cls
             /\ \A id \in RegistryIds(PLATFORM_REGISTRY) \ {call'.id} :
                    Registered(PLATFORM_REGISTRY', id) =
                        Registered(PLATFORM_REGISTRY, id)
       /\ call'.op \in {"get_platform_fetcher", "get_all_enabled_fetchers"} =>
             PLATFORM_REGISTRY' = PLATFORM_REGISTRY
      ]_vars

\* C17 witness: "reddit", registered with RedditFetcher at load time, was
\* registered again with another class, which is now its entry, next to
\* the entry of a second identifier.
C17_Witness ==
    /\ call.op = "register_platform"
    /\ call.id = "reddit"
    /\ call.cls = "BaseFetcher"
    /\ PLATFORM_REGISTRY = <<[id |-> "reddit", cls |-> "BaseFetcher"],
                             [id |-> "hn", cls |-> "RedditFetcher"]>>

\* C18 as stated: get_platform_fetcher returns None exactly when the
\* identifier is not registered; for a registered identifier it returns the
\* instance the registered constructor builds from config[platform_id] (an
\* empty mapping when the key is missing) and the proxy, whatever the
\* enabled flag.
C18_LookupReturnsInstance ==
    call.op = "get_platform_fetcher" =>
        /\ call.result.status = "returned"
        /\ call.result.value = <<>> <=>
               call.id \notin RegistryIds(PLATFORM_REGISTRY)
        /\ call.id \in RegistryIds(PLATFORM_REGISTRY) =>
               /\ Len(call.result.value) = 1
               /\ call.result.value[1].cls =
                      Registered(PLATFORM_REGISTRY, call.id)
               /\ call.result.value[1].config =
                      IF extConfig[call.id] = Missing THEN EmptyMapping
                      ELSE extConfig[call.id]
               /\ call.result.value[1].proxy_url = proxyUrl

\* C18 as amended: the same, unless the registered constructor raises on
\* the section, in which case the exception leaves get_platform_fetcher.
C18_LookupUnlessConstructorRaises ==
    call.op = "get_platform_fetcher" =>
        IF call.id \notin RegistryIds(PLATFORM_REGISTRY)
        THEN call.result.status = "returned" /\ call.result.value = <<>>
        ELSE IF ConstructorRaises(Registered(PLATFORM_REGISTRY, call.id),
                                  ConfigGet(extConfig, call.id))
        THEN call.result.status = "raised"
        ELSE /\ call.result.status = "returned"
             /\ Len(call.result.value) = 1
             /\ call.result.value[1].cls =
                    Registered(PLATFORM_REGISTRY, call.id)
             /\ call.result.value[1].config =
                    IF extConfig[call.id] = Missing THEN EmptyMapping
                    ELSE extConfig[call.id]
             /\ call.result.value[1].proxy_url = proxyUrl

\* C18 witness: get_platform_fetcher("reddit") returned a RedditFetcher
\* built from a section whose enabled flag is false.
C18_Witness ==
    /\ call.op = "get_platform_fetcher"
    /\ call.id = "reddit"
    /\ extConfig["reddit"] # Missing
    /\ extConfig["reddit"] # Null
    /\ extConfig["reddit"].enabled = "false"
    /\ call.result.status = "returned"
    /\ Len(call.result.value) = 1
    /\ call.result.value[1].cls = "RedditFetcher"
    /\ call.result.value[1].config = extConfig["reddit"]

(***************************************************************************)
(* Properties of the platform validation                                   *)
(***************************************************************************)
\* config.yaml was read and every query get_supported_platforms makes of it
\* succeeded
LoadsSuccessfully(file) ==
    /\ file.kind = "loaded"
    /\ \A id \in PlatformIds : file.external_platforms[id] # Null

\* the ids config.yaml supports: those listed under "platforms" and the
\* external platforms marked enabled
SupportedIds(file) ==
    {e[1] : e \in {file.platforms[k] : k \in 1..Len(file.platforms)} \ {<<>>}}
    \cup {id \in PlatformIds :
            /\ file.external_platforms[id].kind = "mapping"
            /\ file.external_platforms[id].enabled = "true"}

\* C23: validate_platforms raises InvalidParameterError whenever config.yaml
\* loads and a non-empty list holds an id that is neither listed nor an
\* enabled external platform, so that validation is skipped only when the
\* file failed to load; and a list it returns is the input list unchanged
\* or, for None or an empty list, the supported list of the file.
C23_ValidatesAgainstConfig ==
    Done("validate_platforms") =>
        LET file == fnArgs.file
            platforms == fnArgs.platforms
            res == fnRet[1]
        IN  /\ (/\ LoadsSuccessfully(file)
                /\ platforms.kind = "list"
                /\ \E k \in 1..Len(platforms.items) :
                       platforms.items[k] \notin SupportedIds(file)) =>
                   res.status = "raised"
            /\ res.status = "returned" =>
                   IF platforms.kind = "list" /\ platforms.items # <<>>
                   THEN res.value = platforms.items
                   ELSE LoadsSuccessfully(file) =>
                            SeqSet(res.value) = SupportedIds(file)
=============================================================================
